---- MODULE Spec2Model ----
(***************************************************************************)
(* Refactoring-Swarm: the audit -> fix -> judge loop of                    *)
(* RefactoringPipeline.run, with the Auditor, Fixer and Judge agents and   *)
(* the file / analysis tools it calls.                                     *)
(*                                                                         *)
(* Python str values are sequences of one-character strings, so that the   *)
(* substring tests, line filters and f-strings of the code are computed.   *)
(* A dict is a function on its keys.                                       *)
(***************************************************************************)
EXTENDS Integers, Sequences, FiniteSets, TLC

\* ------------------------------------------------------------------ bounds

\* Largest max_iterations the pipeline is constructed with.
MaxIter == 2

\* ------------------------------------------------------------ str methods

UpperAlpha ==
    <<"A","B","C","D","E","F","G","H","I","J","K","L","M",
      "N","O","P","Q","R","S","T","U","V","W","X","Y","Z">>

LowerAlpha ==
    <<"a","b","c","d","e","f","g","h","i","j","k","l","m",
      "n","o","p","q","r","s","t","u","v","w","x","y","z">>

\* One character of str.lower().
LowerChar(c) ==
    IF \E i \in DOMAIN UpperAlpha : UpperAlpha[i] = c
    THEN LowerAlpha[CHOOSE i \in DOMAIN UpperAlpha : UpperAlpha[i] = c]
    ELSE c

\* s.lower()
lower(s) == [i \in 1..Len(s) |-> LowerChar(s[i])]

\* sub in s
Contains(sub, s) ==
    \E i \in 0..(Len(s) - Len(sub)) : SubSeq(s, i + 1, i + Len(sub)) = sub

\* s.startswith(prefix)
startswith(s, prefix) ==
    /\ Len(prefix) <= Len(s)
    /\ SubSeq(s, 1, Len(prefix)) = prefix

\* s.split("\n")
RECURSIVE split(_)
split(s) ==
    IF \E i \in 1..Len(s) : s[i] = "\n"
    THEN LET i == CHOOSE k \in 1..Len(s) :
                    /\ s[k] = "\n"
                    /\ \A j \in 1..(k - 1) : s[j] # "\n"
         IN <<SubSeq(s, 1, i - 1)>> \o split(SubSeq(s, i + 1, Len(s)))
    ELSE <<s>>

\* "\n".join(lines)
RECURSIVE join(_)
join(lines) ==
    IF Len(lines) = 0 THEN <<>>
    ELSE IF Len(lines) = 1 THEN lines[1]
    ELSE lines[1] \o <<"\n">> \o join(Tail(lines))

\* The elements of a sequence.
Range(seq) == {seq[i] : i \in DOMAIN seq}

\* d.get(key, default) of a Python dict.
Get(d, key, default) == IF key \in DOMAIN d THEN d[key] ELSE default

\* ------------------------------------------------- texts of src/agents/judge.py

STR_ERROR ==
    <<"e","r","r","o","r">>

STR_FAIL ==
    <<"f","a","i","l">>

REASON_UNABLE_TO_PARSE ==
    <<"U","n","a","b","l","e"," ","t","o"," ","p","a","r","s","e"," ","L","L","M"," ","o","u","t","p","u","t"," ","a","s"," ","J","S","O","N">>

REASON_LLM_CALL_FAILED ==
    <<"L","L","M"," ","c","a","l","l"," ","f","a","i","l","e","d",":"," ">>

REASON_COULD_NOT_PARSE ==
    <<"J","u","d","g","e"," ","c","o","u","l","d"," ","n","o","t"," ","p","a","r","s","e"," ","L","L","M"," ","o","u","t","p","u","t">>

FIX_CHECK_OUTPUTS ==
    <<"C","h","e","c","k"," ","p","y","t","e","s","t"," ","a","n","d"," ","p","y","l","i","n","t"," ","o","u","t","p","u","t","s">>

REASON_REMAIN_HEAD ==
    <<"T","e","s","t","s"," ","o","r"," ","c","r","i","t","i","c","a","l"," ","i","s","s","u","e","s"," ","r","e","m","a","i","n",".","\n","P","y","t","e","s","t"," ","o","u","t","p","u","t",":","\n">>

REASON_REMAIN_MID ==
    <<"\n","P","y","l","i","n","t"," ","c","r","i","t","i","c","a","l"," ","i","s","s","u","e","s",":","\n">>

REASON_COSMETIC_ONLY ==
    <<"T","e","s","t","s"," ","p","a","s","s"," ","a","n","d"," ","o","n","l","y"," ","c","o","s","m","e","t","i","c"," ","l","i","n","t","i","n","g"," ","i","s","s","u","e","s"," ","r","e","m","a","i","n"," ","(","i","g","n","o","r","e","d",")",".">>

REASON_NO_ISSUES ==
    <<"N","o"," ","i","s","s","u","e","s"," ","d","e","t","e","c","t","e","d",".">>

\* The cosmetic pylint rule codes that _filter_pylint_output drops.
ignore_codes ==
    { <<"C","0","1","1","4">>, <<"C","0","1","1","5">>, <<"C","0","1","1","6">>,
      <<"C","0","3","0","1">>, <<"C","0","4","1","1">>, <<"C","0","3","3","0">> }

\* ------------------------------------------- texts of src/tools/analysis_tools.py

COMMAND_TIMED_OUT ==
    <<"E","R","R","O","R",":"," ","C","o","m","m","a","n","d"," ","t","i","m","e","d"," ","o","u","t",".">>

DIRECTORY_DOES_NOT_EXIST ==
    <<"E","R","R","O","R",":"," ","D","i","r","e","c","t","o","r","y"," ","d","o","e","s"," ","n","o","t"," ","e","x","i","s","t",":"," ">>

PATH_DOES_NOT_EXIST ==
    <<"E","R","R","O","R",":"," ","P","a","t","h"," ","d","o","e","s"," ","n","o","t"," ","e","x","i","s","t",":"," ">>

\* ------------------------------------------------------------ JudgeAgent

\* Mutant of ParseDefault: the fallback verdict approves.
ParseDefaultApproves ==
    [ decision      |-> "SUCCESS",
      reason        |-> REASON_UNABLE_TO_PARSE,
      suggested_fix |-> <<>>,
      failed_files  |-> <<>> ]

\* The dict _parse_llm_json returns when neither parse succeeds.
ParseDefault ==
    [ decision      |-> "RETRY",
      reason        |-> REASON_UNABLE_TO_PARSE,
      suggested_fix |-> <<>>,
      failed_files  |-> <<>> ]

\* A text the model can reply with is described by how json.loads and the
\* regex \{[\s\S]*\} see it:
\*   form "json"     the whole text is a JSON document, `value` its value
\*   form "embedded" prose around one {...} that is a JSON document
\*   form "smart"    as embedded, the object written with typographic quotes
\*   form "braces"   a {...} is found but it is no JSON document
\*   form "prose"    no {...} in the text
\* A JSON value is [type |-> "dict", fields |-> <the dict>] or a non-dict
\* value, [type |-> "list"].
_parse_llm_json(llm_text) ==
    IF llm_text.form = "json" THEN llm_text.value
    ELSE IF llm_text.form \in {"embedded", "smart"} THEN llm_text.value
    ELSE [type |-> "dict", fields |-> ParseDefault]

\* JudgeAgent._ask_llm: `oracle` is the outcome of chat.completions.create,
\* [ok |-> FALSE, error |-> <str(e)>] or [ok |-> TRUE, text |-> <reply>].
\* The result is the text handed to _parse_llm_json.
Judge_ask_llm(oracle) ==
    IF oracle.ok
    THEN oracle.text
    ELSE [ form  |-> "json",
           value |-> [ type   |-> "dict",
                       fields |-> [ decision      |-> "RETRY",
                                    reason        |-> REASON_LLM_CALL_FAILED \o oracle.error,
                                    suggested_fix |-> <<>>,
                                    failed_files  |-> <<>> ] ] ]

_filter_pylint_output(output) ==
    join(SelectSeq(split(output),
                   LAMBDA line : ~ \E code \in ignore_codes : Contains(code, line)))

\* Mutant of evaluate: the decision of the model is returned as it came.
evaluateKeepsVerdict(pytest_output, pylint_output, oracle) ==
    LET llm_feedback == Judge_ask_llm(oracle)
        parsed == _parse_llm_json(llm_feedback)
        is_dict == parsed.type = "dict"
    IN [ agent         |-> "JudgeAgent",
         decision      |-> IF is_dict THEN Get(parsed.fields, "decision", "RETRY")
                           ELSE "RETRY",
         reason        |-> IF is_dict THEN Get(parsed.fields, "reason", REASON_NO_ISSUES)
                           ELSE REASON_COULD_NOT_PARSE,
         suggested_fix |-> IF is_dict THEN Get(parsed.fields, "suggested_fix", <<>>)
                           ELSE FIX_CHECK_OUTPUTS,
         llm_feedback  |-> llm_feedback ]

\* JudgeAgent.evaluate, the report it returns.
evaluate(pytest_output, pylint_output, oracle) ==
    LET llm_feedback == Judge_ask_llm(oracle)
        parsed == _parse_llm_json(llm_feedback)
        \* parsed.get raises on a non-dict value; the except branch answers
        is_dict == parsed.type = "dict"
        decision0 == IF is_dict THEN Get(parsed.fields, "decision", "RETRY") ELSE "RETRY"
        reason0 == IF is_dict THEN Get(parsed.fields, "reason", <<>>)
                   ELSE REASON_COULD_NOT_PARSE
        suggested_fix == IF is_dict THEN Get(parsed.fields, "suggested_fix", <<>>)
                         ELSE FIX_CHECK_OUTPUTS
        filtered_pylint == _filter_pylint_output(pylint_output)
        \* each text is lowered once, then searched
        critical == \/ \E filtered \in {filtered_pylint} :
                         \E lowered \in {lower(filtered)} :
                           Contains(STR_ERROR, lowered)
                    \/ \E lowered \in {lower(pytest_output)} :
                         Contains(STR_FAIL, lowered)
        decision == IF decision0 # "SUCCESS"
                    THEN (IF critical THEN "RETRY" ELSE "SUCCESS")
                    ELSE decision0
        reason1 == IF decision0 # "SUCCESS"
                   THEN (IF critical
                         THEN REASON_REMAIN_HEAD \o pytest_output
                                  \o REASON_REMAIN_MID \o filtered_pylint
                         ELSE REASON_COSMETIC_ONLY)
                   ELSE reason0
        reason == IF reason1 = <<>> THEN REASON_NO_ISSUES ELSE reason1
    IN [ agent         |-> "JudgeAgent",
         decision      |-> decision,
         reason        |-> reason,
         suggested_fix |-> suggested_fix,
         llm_feedback  |-> llm_feedback ]

\* ------------------------------------------------------- paths and files

\* A Path is [parent |-> <directory as written>, name |-> <file name>].  The
\* sandbox root is the directory "sandbox" of the project root "project";
\* relative paths are written from the project root.
NAME_CALC ==
    <<"c","a","l","c",".","p","y">>

NAME_UTIL ==
    <<"u","t","i","l",".","p","y">>

NAME_TEST_CALC ==
    <<"t","e","s","t","_","c","a","l","c",".","p","y">>

NAME_NOTES ==
    <<"n","o","t","e","s",".","i","p","y","n","b">>

NAME_LINK ==
    <<"l","i","n","k",".","p","y">>

MODULE_UTIL ==
    <<"u","t","i","l">>

MODULE_CALC ==
    <<"c","a","l","c">>

MODULE_OS ==
    <<"o","s">>

PathCalc == [parent |-> "sandbox", name |-> NAME_CALC]

PathUtil == [parent |-> "sandbox", name |-> NAME_UTIL]

PathTestCalc == [parent |-> "sandbox", name |-> NAME_TEST_CALC]

PathOutside == [parent |-> "project", name |-> NAME_UTIL]

\* a notebook, which the command line driver tracks as well
PathNotes == [parent |-> "sandbox", name |-> NAME_NOTES]

\* a file of a directory below the sandbox root
PathNested == [parent |-> "sandbox/subdir", name |-> NAME_UTIL]

\* sandbox/link.py, a symbolic link to PathOutside
PathLink == [parent |-> "sandbox", name |-> NAME_LINK]

\* "./sandbox/calc.py": PathCalc written relative to the project root
PathDotSlash == [parent |-> "./sandbox", name |-> NAME_CALC]

\* "sandbox/../util.py": PathOutside written through the sandbox
PathDotDot == [parent |-> "sandbox/..", name |-> NAME_UTIL]

\* The directory entries of the model's file system.
Paths ==
    {PathCalc, PathUtil, PathTestCalc, PathOutside, PathNotes, PathNested, PathLink}

\* The paths a tool can be called with.
PathArgs == Paths \cup {PathDotSlash, PathDotDot}

\* The lists of tracked files a pipeline is constructed with.
FileLists ==
    { <<>>,
      <<PathCalc>>,
      <<PathTestCalc, PathCalc>>,
      <<PathCalc, PathOutside>> }

\* The symbolic links of the file system and what they point to.
Symlinks == [p \in {PathLink} |-> PathOutside]

\* The directory a written directory names once "." and ".." are folded.
normpath(dir) ==
    CASE dir = "./sandbox" -> "sandbox"
      [] dir = "sandbox/.." -> "project"
      [] OTHER -> dir

\* The path without "." and "..", symbolic links not followed.
absolute(path) == [path EXCEPT !.parent = normpath(path.parent)]

\* Path(path).resolve(): absolute, with symbolic links followed.
resolve(path) ==
    IF absolute(path) \in DOMAIN Symlinks
    THEN Symlinks[absolute(path)]
    ELSE absolute(path)

\* The directories at or below the sandbox root.
SandboxDirs == {"sandbox", "sandbox/subdir"}

\* Path.suffix and Path.stem of a file name.
LastDot(name) ==
    IF \E i \in 2..Len(name) : name[i] = "."
    THEN CHOOSE i \in 2..Len(name) :
            /\ name[i] = "."
            /\ \A j \in (i + 1)..Len(name) : name[j] # "."
    ELSE 0

suffix(path) ==
    IF LastDot(path.name) = 0 THEN <<>>
    ELSE SubSeq(path.name, LastDot(path.name), Len(path.name))

stem(path) ==
    IF LastDot(path.name) = 0 THEN path.name
    ELSE SubSeq(path.name, 1, LastDot(path.name) - 1)

SUFFIX_PY ==
    <<".","p","y">>

PREFIX_TEST ==
    <<"t","e","s","t","_">>

\* What a file holds.  A source text is described by what the code asks of
\* it: what ast.parse does with it ("tree", "SyntaxError", or "ValueError",
\* which older interpreters raise for a text with a NUL), the calls ast.walk
\* meets, the modules it imports, the two substring tests of audit, and its
\* length.
Absent == [exists |-> FALSE]

\* getattr(node.func, "id", None): a callee is the sequence of its dotted
\* names, and only a plain name has an id.
func_id(callee) == IF Len(callee) = 1 THEN callee[1] ELSE "None"

\* An ast.Call node.
Call(callee, lineno) ==
    [callee |-> callee, id |-> func_id(callee), lineno |-> lineno]

Code(parse, calls, imports, log_marker, nul, size) ==
    [ exists     |-> TRUE,
      parse      |-> parse,
      calls      |-> calls,
      imports    |-> imports,
      log_marker |-> log_marker,
      nul        |-> nul,
      size       |-> size ]

\* a module that calls log_experiment and nothing forbidden
CodeLogged == Code("tree", <<>>, <<MODULE_OS>>, TRUE, FALSE, 48)

\* a module that calls eval on line 1
CodeEval == Code("tree", <<Call(<<"eval">>, 1)>>, <<MODULE_CALC>>, TRUE, FALSE, 64)

\* a module without log_experiment and without calls
CodePlain == Code("tree", <<>>, <<MODULE_UTIL>>, FALSE, FALSE, 32)

\* a module that calls exec on line 2 and __import__ on line 3
CodeExec ==
    Code("tree", <<Call(<<"exec">>, 2), Call(<<"__import__">>, 3)>>, <<>>,
         TRUE, FALSE, 56)

\* a module that calls pickle.loads on line 2
CodePickle ==
    Code("tree", <<Call(<<"pickle", "loads">>, 2)>>, <<MODULE_OS>>, FALSE, FALSE, 40)

\* a module that calls print and logging.info only
CodeCalls ==
    Code("tree", <<Call(<<"print">>, 1), Call(<<"logging", "info">>, 2)>>,
         <<MODULE_UTIL, MODULE_UTIL>>, FALSE, FALSE, 44)

\* texts that are no valid syntax
CodeBroken == Code("SyntaxError", <<>>, <<>>, FALSE, FALSE, 24)

CodeBrokenLogged == Code("SyntaxError", <<>>, <<>>, TRUE, FALSE, 36)

\* texts with a NUL, on an interpreter that reports it as SyntaxError and
\* on one that raises ValueError
CodeNul == Code("SyntaxError", <<>>, <<>>, FALSE, TRUE, 28)

CodeNulValueError == Code("ValueError", <<>>, <<>>, TRUE, TRUE, 52)

\* the empty text and a text of a few characters
CodeEmpty == Code("tree", <<>>, <<>>, FALSE, FALSE, 0)

CodeStub == Code("tree", <<>>, <<>>, FALSE, FALSE, 4)

\* The contents a tracked file starts with.
InitialCodes == {CodeLogged, CodeEval, Absent}

\* The replacement texts the fixing model answers with.
FixedCodes == {CodeLogged}

\* --------------------------------------------------- src/tools/security.py

\* Mutant of ensure_in_sandbox: the path is tested as written, without
\* resolve().
ensure_in_sandboxAsWritten(path) ==
    path.parent \in SandboxDirs \cup {"./sandbox", "sandbox/.."}

\* ensure_in_sandbox(path): TRUE when it returns, FALSE when it raises.
ensure_in_sandbox(path) == resolve(path).parent \in SandboxDirs

\* ------------------------------------------------- src/tools/file_tools.py

\* The file system is [disk, bak, dirs]: disk[p] is the content of the file
\* at p, bak[p] the content of the sibling p.name + ".bak", dirs the
\* directories that exist.

\* read_file: the text, or the ValueError after every encoding failed.
read_file(fs, path) ==
    IF fs.disk[resolve(path)].exists
    THEN [raised |-> FALSE, text |-> fs.disk[resolve(path)]]
    ELSE [raised |-> TRUE, text |-> Absent]

\* Mutant of backup_file: an existing backup is never replaced.
backup_fileKeepsFirst(fs, path) ==
    IF fs.disk[resolve(path)].exists /\ ~ fs.bak[absolute(path)].exists
    THEN [fs EXCEPT !.bak[absolute(path)] = fs.disk[resolve(path)]]
    ELSE fs

\* backup_file: shutil.copy reads through a link and writes the sibling of
\* the path as given.
backup_file(fs, path) ==
    IF fs.disk[resolve(path)].exists
    THEN [fs EXCEPT !.bak[absolute(path)] = fs.disk[resolve(path)]]
    ELSE fs

\* file_path.parent.mkdir(parents=True, exist_ok=True)
mkdir(fs, path) == [fs EXCEPT !.dirs = @ \cup {resolve(path).parent}]

\* write_file: the file system it leaves and whether it raised.
write_file(fs, path, content) ==
    IF ~ ensure_in_sandbox(path)
    THEN [raised |-> TRUE, fs |-> fs]
    ELSE [ raised |-> FALSE,
           fs     |-> [backup_file(mkdir(fs, path), path)
                          EXCEPT !.disk[resolve(path)] = content] ]

\* --------------------------------------------- src/tools/analysis_tools.py

\* A target directory is [name, exists, in_sandbox, is_file].
DIR_SANDBOX ==
    <<"s","a","n","d","b","o","x">>

DIR_MISSING ==
    <<"m","i","s","s","i","n","g">>

DIR_PROJECT ==
    <<"p","r","o","j","e","c","t">>

TargetDirs ==
    { [name |-> DIR_SANDBOX, exists |-> TRUE, in_sandbox |-> TRUE, is_file |-> FALSE],
      [name |-> DIR_MISSING, exists |-> FALSE, in_sandbox |-> TRUE, is_file |-> FALSE],
      [name |-> DIR_PROJECT, exists |-> TRUE, in_sandbox |-> FALSE, is_file |-> FALSE] }

\* _run_command: `outcome` is what subprocess.run did,
\* [kind |-> "output", text |-> stdout + stderr], [kind |-> "timeout"] or
\* [kind |-> "error", text |-> str(e)].
STR_ERROR_COLON ==
    <<"E","R","R","O","R",":"," ">>

_run_command(outcome) ==
    IF outcome.kind = "output" THEN outcome.text
    ELSE IF outcome.kind = "timeout" THEN COMMAND_TIMED_OUT
    ELSE STR_ERROR_COLON \o outcome.text

run_pytest(target_dir, outcome) ==
    IF ~ target_dir.exists
    THEN [raised |-> FALSE, text |-> DIRECTORY_DOES_NOT_EXIST \o target_dir.name]
    ELSE IF ~ target_dir.in_sandbox
    THEN [raised |-> TRUE, text |-> <<>>]
    ELSE [raised |-> FALSE, text |-> _run_command(outcome)]

run_pylint(target_path, outcome) ==
    IF ~ target_path.exists
    THEN [raised |-> FALSE, text |-> PATH_DOES_NOT_EXIST \o target_path.name]
    ELSE IF target_path.is_file /\ ~ target_path.in_sandbox
    THEN [raised |-> TRUE, text |-> <<>>]
    ELSE [raised |-> FALSE, text |-> _run_command(outcome)]

\* ------------------------------------------------- src/agents/auditor.py

forbidden_calls == {"eval", "exec", "__import__", "pickle.loads"}

RECURSIVE ForbiddenIssues(_)
ForbiddenIssues(calls) ==
    IF calls = <<>> THEN <<>>
    ELSE (IF Head(calls).id \in forbidden_calls
          THEN <<[issue |-> "Forbidden call", name |-> Head(calls).id,
                  lineno |-> Head(calls).lineno]>>
          ELSE <<>>) \o ForbiddenIssues(Tail(calls))

\* Mutant of _detect_forbidden_calls: a text that does not parse is passed over.
_detect_forbidden_callsSilent(code) ==
    IF code.parse = "tree" THEN ForbiddenIssues(code.calls) ELSE <<>>

\* The issues _detect_forbidden_calls returns; only SyntaxError is caught.
_detect_forbidden_calls(code) ==
    IF code.parse = "tree" THEN ForbiddenIssues(code.calls)
    ELSE <<[issue |-> "Syntax error: unable to parse file"]>>

\* The ValueError of ast.parse leaves _detect_forbidden_calls and audit.
audit_raises(code) == code.parse = "ValueError"

\* Mutant of status_of: any finding fails the file.
status_ofAnyFinding(severity, issues) ==
    IF issues # <<>> THEN "FAIL" ELSE "PASS"

\* Status resolution of audit.
status_of(severity, issues) ==
    IF "HIGH" \in Range(severity) THEN "FAIL"
    ELSE IF issues # <<>> THEN "WARN"
    ELSE "PASS"

\* AuditorAgent.audit; llm_feedback is what AuditorAgent._ask_llm returned.
audit(file_path, code, require_logging, llm_feedback) ==
    LET forbidden_issues == _detect_forbidden_calls(code)
        logging == require_logging /\ ~ code.log_marker
        issues ==
            forbidden_issues
            \o (IF logging
                THEN <<[issue |-> "No logging detected with log_experiment"]>>
                ELSE <<>>)
            \o (IF code.nul THEN <<[issue |-> "Null byte detected in file"]>> ELSE <<>>)
        suggestions ==
            [i \in DOMAIN forbidden_issues |->
                "Remove or replace forbidden call with a safe alternative."]
            \o (IF logging
                THEN <<"Add log_experiment calls to track agent actions">>
                ELSE <<>>)
            \o (IF code.nul
                THEN <<"Clean file encoding and remove binary content">>
                ELSE <<>>)
        severity ==
            [i \in DOMAIN forbidden_issues |-> "HIGH"]
            \o (IF logging THEN <<"MEDIUM">> ELSE <<>>)
            \o (IF code.nul THEN <<"HIGH">> ELSE <<>>)
        status == status_of(severity, issues)
    IN [ agent        |-> "AuditorAgent",
         file         |-> file_path,
         status       |-> status,
         issues       |-> issues,
         suggestions  |-> suggestions,
         severity     |-> severity,
         llm_feedback |-> llm_feedback ]

\* AuditorAgent._ask_llm: the dict returned for the outcome of the chat call.
STR_LLM_UNAVAILABLE ==
    <<"L","L","M"," ","u","n","a","v","a","i","l","a","b","l","e",":"," ">>

\* Mutant of Auditor_ask_llm: a failed call leaves no trace in the feedback.
Auditor_ask_llmSilent(oracle) ==
    IF oracle.ok
    THEN (IF oracle.text.form = "json" THEN oracle.text.value
          ELSE [raw_feedback |-> oracle.text])
    ELSE [raw_feedback |-> <<>>]

Auditor_ask_llm(oracle) ==
    IF oracle.ok
    THEN (IF oracle.text.form = "json" THEN oracle.text.value
          ELSE [raw_feedback |-> oracle.text])
    ELSE [error |-> STR_LLM_UNAVAILABLE \o oracle.error]

\* --------------------------------------------------- src/agents/fixer.py

\* A reply that wraps the text in a code fence: a line of three backquotes
\* and the word python before it, a line of three backquotes after it, 14
\* characters in all.
Fenced(code) == [fence |-> "python", size |-> code.size + 14] @@ code

\* The clean-up of _ask_llm: a reply that starts with a fence loses its first
\* and its last line.
strip_fences(text) ==
    IF "fence" \in DOMAIN text
    THEN [f \in DOMAIN text \ {"fence"} |->
             IF f = "size" THEN text.size - 14 ELSE text[f]]
    ELSE text

\* FixerAgent._ask_llm: the reply text, or the RuntimeError it raises when
\* generate_content failed.
Fixer_ask_llm(oracle) ==
    IF oracle.ok
    THEN [raised |-> FALSE, text |-> strip_fences(oracle.text)]
    ELSE [raised |-> TRUE, text |-> <<>>]

\* Mutant of fix_file: the file is opened for writing before the model is
\* asked, so a failed call leaves it empty.
fix_fileTruncatesFirst(fs, file_path, refactoring_plan, oracle) ==
    LET current == read_file(fs, file_path)
        fixed == Fixer_ask_llm(oracle)
        written == write_file(fs, file_path, fixed.text)
        emptied == write_file(fs, file_path, CodeEmpty)
        FAIL(error) == [ agent |-> "FixerAgent", file |-> file_path,
                         status |-> "FAIL", error |-> error,
                         changes_applied |-> FALSE ]
    IN  IF current.raised
        THEN [fs |-> fs, report |-> FAIL("Failed to read file")]
        ELSE IF fixed.raised
        THEN [fs |-> emptied.fs, report |-> FAIL("LLM fixing failed")]
        ELSE IF written.raised
        THEN [fs |-> fs, report |-> FAIL("SECURITY VIOLATION")]
        ELSE [ fs     |-> written.fs,
               report |-> [ agent            |-> "FixerAgent",
                            file             |-> file_path,
                            status           |-> "SUCCESS",
                            original_size    |-> current.text.size,
                            fixed_size       |-> fixed.text.size,
                            changes_applied  |-> TRUE,
                            plan_summary     |-> Get(refactoring_plan, "summary", "No summary"),
                            issues_addressed |-> Get(refactoring_plan, "issues", <<>>) ] ]

\* FixerAgent.fix_file: the report and the file system it leaves.
fix_file(fs, file_path, refactoring_plan, oracle) ==
    LET current == read_file(fs, file_path)
        fixed == Fixer_ask_llm(oracle)
        written == write_file(fs, file_path, fixed.text)
        FAIL(error) == [ agent |-> "FixerAgent", file |-> file_path,
                         status |-> "FAIL", error |-> error,
                         changes_applied |-> FALSE ]
    IN  IF current.raised
        THEN [fs |-> fs, report |-> FAIL("Failed to read file")]
        ELSE IF fixed.raised
        THEN [fs |-> fs, report |-> FAIL("LLM fixing failed")]
        ELSE IF written.raised
        THEN [fs |-> fs, report |-> FAIL("SECURITY VIOLATION")]
        ELSE [ fs     |-> written.fs,
               report |-> [ agent            |-> "FixerAgent",
                            file             |-> file_path,
                            status           |-> "SUCCESS",
                            original_size    |-> current.text.size,
                            fixed_size       |-> fixed.text.size,
                            changes_applied  |-> TRUE,
                            plan_summary     |-> Get(refactoring_plan, "summary", "No summary"),
                            issues_addressed |-> Get(refactoring_plan, "issues", <<>>) ] ]

\* The loop of apply_refactoring_plan over files_to_fix[i..]; oracles[i] is
\* the outcome of the model call made for entry i.
RECURSIVE FixEntries(_, _, _, _, _)
FixEntries(fs, files_to_fix, global_plan, oracles, i) ==
    IF i > Len(files_to_fix)
    THEN [fs |-> fs, results |-> <<>>]
    ELSE LET file_info == files_to_fix[i]
             file_path == file_info.path
             \* {**global_plan, "file_specific": .., "suggestions": .., "summary": ..}
             file_plan == [ file_specific |-> Get(file_info, "issues", <<>>),
                            suggestions   |-> Get(file_info, "suggestions", <<>>),
                            summary       |-> <<"Fix", file_path, "based on audit findings">> ]
                          @@ global_plan
             one == fix_file(fs, file_path, file_plan, oracles[i])
             rest == FixEntries(one.fs, files_to_fix, global_plan, oracles, i + 1)
         IN  IF "path" \notin DOMAIN file_info
             THEN FixEntries(fs, files_to_fix, global_plan, oracles, i + 1)
             ELSE [fs |-> rest.fs, results |-> <<one.report>> \o rest.results]

overall_status(failed) == IF failed = 0 THEN "COMPLETE" ELSE "PARTIAL"

\* Mutant of apply_refactoring_plan: the batch is abandoned after the first
\* entry whose fix failed.
apply_refactoring_planAborts(fs, plan_data, oracles) ==
    LET files_to_fix == Get(plan_data, "files_to_fix", <<>>)
        global_plan == Get(plan_data, "global_plan", <<>>)
        upto(n) == FixEntries(fs, SubSeq(files_to_fix, 1, n), global_plan, oracles, 1)
        failing == {n \in DOMAIN files_to_fix :
                       \E i \in DOMAIN upto(n).results :
                           upto(n).results[i].status = "FAIL"}
        last == IF failing = {} THEN Len(files_to_fix)
                ELSE CHOOSE n \in failing : \A m \in failing : n <= m
        done == upto(last)
        successful == Cardinality({i \in DOMAIN done.results :
                                      done.results[i].status = "SUCCESS"})
        failed == Len(done.results) - successful
    IN [ fs      |-> done.fs,
         summary |-> [ agent          |-> "FixerAgent",
                       operation      |-> "batch_refactoring",
                       total_files    |-> Len(files_to_fix),
                       successful     |-> successful,
                       failed         |-> failed,
                       file_results   |-> done.results,
                       overall_status |-> overall_status(failed) ] ]

\* FixerAgent.apply_refactoring_plan: the summary and the file system.
apply_refactoring_plan(fs, plan_data, oracles) ==
    LET files_to_fix == Get(plan_data, "files_to_fix", <<>>)
        global_plan == Get(plan_data, "global_plan", <<>>)
        done == FixEntries(fs, files_to_fix, global_plan, oracles, 1)
        successful == Cardinality({i \in DOMAIN done.results :
                                      done.results[i].status = "SUCCESS"})
        failed == Len(done.results) - successful
    IN [ fs      |-> done.fs,
         summary |-> [ agent          |-> "FixerAgent",
                       operation      |-> "batch_refactoring",
                       total_files    |-> Len(files_to_fix),
                       successful     |-> successful,
                       failed         |-> failed,
                       file_results   |-> done.results,
                       overall_status |-> overall_status(failed) ] ]

\* ---------------------------------------------- src/depgraph/depgraph.py

\* module_map[module_name] as a list: the last registered .py file of that
\* stem, or nothing when the name is not in module_map.
module_map(files, module_name) ==
    LET hits == {i \in DOMAIN files :
                    suffix(files[i]) = SUFFIX_PY /\ stem(files[i]) = module_name}
    IN  IF hits = {} THEN <<>>
        ELSE <<files[CHOOSE i \in hits : \A j \in hits : j <= i]>>

RECURSIVE LocalImports(_, _)
LocalImports(files, imports) ==
    IF imports = <<>> THEN <<>>
    ELSE module_map(files, Head(imports)) \o LocalImports(files, Tail(imports))

\* create_dependency_graph: the keys in insertion order and the edge lists.
create_dependency_graph(fs, files) ==
    LET keys == SelectSeq(files, LAMBDA f : suffix(f) = SUFFIX_PY)
        edges(f) ==
            LET source == read_file(fs, f)
            IN  IF source.raised \/ source.text.parse # "tree" THEN <<>>
                ELSE LocalImports(files, source.text.imports)
    IN [ keys  |-> keys,
         graph |-> [f \in Range(keys) |-> edges(f)] ]

\* ------------------------------- src/orchestrator/refactoring_pipeline.py

\* sorted(depgraph.keys(), key=lambda f: len(depgraph[f])): a stable sort of
\* the keys, in insertion order, by their number of dependencies.
ordered_files(depgraph) ==
    LET keys == depgraph.keys
        n(i) == Len(depgraph.graph[keys[i]])
        before(i) == Cardinality({j \in DOMAIN keys :
                                     \/ n(j) < n(i)
                                     \/ n(j) = n(i) /\ j < i})
    IN [r \in DOMAIN keys |-> keys[CHOOSE i \in DOMAIN keys : before(i) = r - 1]]

\* generate_initial_plan_from_graph: the plan saved to the memory.
generate_initial_plan_from_graph(fs, files) ==
    LET depgraph == create_dependency_graph(fs, files)
    IN [ strategy         |-> "Fix leaf dependencies first",
         file_order       |-> ordered_files(depgraph),
         dependency_graph |-> depgraph.graph ]

NO_SUMMARY ==
    <<"N","o"," ","s","u","m","m","a","r","y">>

\* One entry of files_to_fix.
FixEntry(file_path) ==
    [ path                 |-> file_path,
      issues               |-> <<>>,
      suggestions          |-> <<>>,
      latest_pytest_output |-> <<>>,
      latest_pylint_output |-> <<>>,
      llm_feedback         |-> <<>> ]

is_test(file_path) == startswith(file_path.name, PREFIX_TEST)

\* Mutant of files_to_fix_of: the files are listed in the order in which
\* they are tracked.
files_to_fix_ofAsTracked(files) ==
    [i \in DOMAIN files |-> FixEntry(files[i])]

\* The files_to_fix list of build_global_plan_from_memory.
files_to_fix_of(files) ==
    LET user_files == SelectSeq(files, LAMBDA f : ~ is_test(f))
        test_files == SelectSeq(files, LAMBDA f : is_test(f))
        ordered == user_files \o test_files
    IN [i \in DOMAIN ordered |-> FixEntry(ordered[i])]

\* build_global_plan_from_memory: the plan, or the exception that leaves it:
\* the RuntimeError of FixerAgent._ask_llm, or the AttributeError of
\* raw_plan.get when the reply is a JSON document that is no object.
build_global_plan_from_memory(files, oracle) ==
    LET response == Fixer_ask_llm(oracle)
        raw_plan == IF response.text.form = "json"
                    THEN response.text.value
                    ELSE [ type   |-> "dict",
                           fields |-> [ note       |-> "LLM output not valid JSON",
                                        file_order |-> <<>> ] ]
    IN  IF response.raised
        THEN [raised |-> TRUE, plan |-> <<>>]
        ELSE IF raw_plan.type # "dict"
        THEN [raised |-> TRUE, plan |-> <<>>]
        ELSE [ raised |-> FALSE,
               plan   |-> [ files_to_fix |-> files_to_fix_of(files),
                            global_plan  |->
                                [summary |-> Get(raw_plan.fields, "strategy", NO_SUMMARY)] ] ]

\* ------------------------------------------------ what the collaborators do

ERROR_TIMEOUT ==
    <<"t","i","m","e","o","u","t">>

STRATEGY_LEAF_FIRST ==
    <<"l","e","a","f"," ","f","i","r","s","t">>

PYTEST_PASSED ==
    <<"1"," ","p","a","s","s","e","d">>

PYTEST_PASSED_0_FAILED ==
    <<"1"," ","p","a","s","s","e","d",","," ","0"," ","f","a","i","l","e","d">>

PYTEST_PASSED_1_FAILED ==
    <<"1"," ","p","a","s","s","e","d",","," ","1"," ","f","a","i","l","e","d">>

PYLINT_COSMETIC ==
    <<"C","0","1","1","4"," ","m","i","s","s","i","n","g"," ","d","o","c","s","t","r","i","n","g">>

PYLINT_COSMETIC_ERROR ==
    <<"C","0","1","1","6"," ","d","o","c","s","t","r","i","n","g"," ","o","n","_","e","r","r","o","r">>

PYLINT_CRITICAL ==
    <<"E","0","6","0","2"," ","u","n","d","e","f","i","n","e","d"," ","e","r","r","o","r">>

REASON_OK ==
    <<"o","k">>

OracleDown == [ok |-> FALSE, error |-> ERROR_TIMEOUT]

Reply(text) == [ok |-> TRUE, text |-> text]

JsonDict(fields) == [form |-> "json", value |-> [type |-> "dict", fields |-> fields]]

JsonList == [form |-> "json", value |-> [type |-> "list"]]

Prose == [form |-> "prose"]

\* What the planning call of an iteration can come back with.
PlannerOracles ==
    { OracleDown,
      Reply(Prose),
      Reply(JsonDict([strategy |-> STRATEGY_LEAF_FIRST])),
      Reply(JsonList) }

\* What the fixing call for one file can come back with.
FixerOracles == {OracleDown} \cup {Reply(code) : code \in FixedCodes}

\* What the audit call for one file comes back with.
AuditorOracle == Reply(Prose)

\* What the Judge's call can come back with.
VerdictSuccess == Reply(JsonDict([decision |-> "SUCCESS", reason |-> REASON_OK]))

VerdictRetry == Reply(JsonDict([decision |-> "RETRY", reason |-> REASON_OK]))

JudgeOracles == {OracleDown, VerdictSuccess, VerdictRetry}

\* What subprocess.run does for pytest and for pylint.
Output(text) == [kind |-> "output", text |-> text]

PytestOutcomes == {Output(PYTEST_PASSED), Output(PYTEST_PASSED_1_FAILED)}

PylintOutcomes == {Output(PYLINT_COSMETIC), Output(PYLINT_CRITICAL)}

\* ------------------------------------------------------------------ state

VARIABLES
    files,            \* self.files
    max_iterations,   \* self.max_iterations
    require_logging,  \* self.require_logging
    target_dir,       \* the argument of run
    fs,               \* the files on disk and their .bak siblings
    memory,           \* self.memory: the initial plan saved by step 1
    pc,               \* where run is
    iteration,        \* locals of run
    success,
    final_status,
    history,
    reports,          \* what audit_files returned in this iteration
    global_plan,
    fix_result,
    pytest_output,
    pylint_output,
    judgement,
    judge_oracle,     \* what the Judge's model call of this iteration did
    phases,           \* the collaborators run has called in this iteration
    call              \* the tool call made outside of run, and how it ended

vars ==
    << files, max_iterations, require_logging, target_dir, fs, memory, pc,
       iteration, success, final_status, history, reports, global_plan,
       fix_result, pytest_output, pylint_output, judgement, judge_oracle,
       phases, call >>

\* A local of run that holds nothing yet.
None == [agent |-> "None"]

\* The file system a run starts on: every tracked file holds one of the
\* initial contents, nothing else exists.
InitialFs(fileList) ==
    { [disk |-> d, bak |-> [p \in Paths |-> Absent], dirs |-> {"sandbox", "project"}] :
        d \in { d \in [Paths -> InitialCodes] :
                   \A p \in Paths : p \notin Range(fileList) => d[p] = Absent } }

Init ==
    /\ files \in FileLists
    /\ max_iterations \in 0..MaxIter
    /\ require_logging = TRUE
    /\ target_dir \in TargetDirs
    /\ fs \in InitialFs(files)
    /\ memory = None
    /\ pc = "start"
    /\ iteration = 0
    /\ success = FALSE
    /\ final_status = "MAX_ITERATIONS_REACHED"
    /\ history = <<>>
    /\ reports = <<>>
    /\ global_plan = None
    /\ fix_result = None
    /\ pytest_output = <<>>
    /\ pylint_output = <<>>
    /\ judgement = None
    /\ judge_oracle = None
    /\ phases = <<>>
    /\ call = None

\* run, lines 181-187: the locals are set and the initial plan is generated.
GenerateInitialPlan ==
    /\ pc = "start"
    /\ memory' = generate_initial_plan_from_graph(fs, files)
    /\ pc' = "while"
    /\ UNCHANGED << call, files, max_iterations, require_logging, target_dir,
                    fs, iteration, success, final_status, history, reports,
                    global_plan, fix_result, pytest_output, pylint_output,
                    judgement, judge_oracle, phases >>

\* Mutant of LoopCondition: the loop test is off by one.
LoopConditionInclusive == iteration <= max_iterations

\* while iteration < self.max_iterations
LoopCondition == iteration < max_iterations

\* Mutant of NextIteration: the dependency graph is built anew in every pass.
NextIterationRebuildsGraph ==
    /\ pc = "while"
    /\ LoopCondition
    /\ iteration' = iteration + 1
    /\ memory' = generate_initial_plan_from_graph(fs, files)
    /\ phases' = <<>>
    /\ reports' = <<>>
    /\ global_plan' = None
    /\ fix_result' = None
    /\ pytest_output' = <<>>
    /\ pylint_output' = <<>>
    /\ judge_oracle' = None
    /\ pc' = "audit"
    /\ UNCHANGED << call, files, max_iterations, require_logging, target_dir,
                    fs, success, final_status, history, judgement >>

\* Mutant of NextIteration: history is initialised inside the loop.
NextIterationResetsHistory ==
    /\ pc = "while"
    /\ LoopCondition
    /\ iteration' = iteration + 1
    /\ history' = <<>>
    /\ phases' = <<>>
    /\ reports' = <<>>
    /\ global_plan' = None
    /\ fix_result' = None
    /\ pytest_output' = <<>>
    /\ pylint_output' = <<>>
    /\ judge_oracle' = None
    /\ pc' = "audit"
    /\ UNCHANGED << call, files, max_iterations, require_logging, target_dir,
                    fs, memory, success, final_status, judgement >>

\* The loop test holds: iteration += 1 and the body starts.  The body
\* assigns reports, global_plan, fix_result and the two outputs before it
\* reads them, so what the previous pass left in them is dropped here;
\* judgement is kept, it is the verdict the new pass could look back on.
NextIteration ==
    /\ pc = "while"
    /\ LoopCondition
    /\ iteration' = iteration + 1
    /\ phases' = <<>>
    /\ reports' = <<>>
    /\ global_plan' = None
    /\ fix_result' = None
    /\ pytest_output' = <<>>
    /\ pylint_output' = <<>>
    /\ judge_oracle' = None
    /\ pc' = "audit"
    /\ UNCHANGED << call, files, max_iterations, require_logging, target_dir,
                    fs, memory, success, final_status, history, judgement >>

\* The reports of audit_files over files[i..].
RECURSIVE AuditReports(_, _, _, _)
AuditReports(fsys, fileList, logging, i) ==
    IF i > Len(fileList) THEN <<>>
    ELSE <<audit(fileList[i], read_file(fsys, fileList[i]).text, logging,
                 Auditor_ask_llm(AuditorOracle))>>
         \o AuditReports(fsys, fileList, logging, i + 1)

\* Mutant of AuditFiles: an audit in which every file passes ends the run
\* with SUCCESS at once.
AuditFilesStopsWhenClean ==
    /\ pc = "audit"
    /\ phases' = Append(phases, "audit")
    /\ IF \E i \in DOMAIN files :
             \/ read_file(fs, files[i]).raised
             \/ audit_raises(read_file(fs, files[i]).text)
       THEN /\ pc' = "raised"
            /\ UNCHANGED << reports, success, final_status >>
       ELSE /\ reports' = AuditReports(fs, files, require_logging, 1)
            /\ IF \A i \in DOMAIN files :
                      AuditReports(fs, files, require_logging, 1)[i].status = "PASS"
               THEN /\ success' = TRUE
                    /\ final_status' = "SUCCESS"
                    /\ pc' = "done"
               ELSE /\ pc' = "plan"
                    /\ UNCHANGED << success, final_status >>
    /\ UNCHANGED << call, files, max_iterations, require_logging, target_dir,
                    fs, memory, iteration, history, global_plan, fix_result,
                    pytest_output, pylint_output, judgement, judge_oracle >>

\* Mutant of AuditFiles: the audit writes back every file it read, with the
\* logging call added.
AuditFilesNormalises ==
    /\ pc = "audit"
    /\ phases' = Append(phases, "audit")
    /\ IF \E i \in DOMAIN files :
             \/ read_file(fs, files[i]).raised
             \/ audit_raises(read_file(fs, files[i]).text)
       THEN /\ pc' = "raised"
            /\ UNCHANGED << reports, fs >>
       ELSE /\ reports' = AuditReports(fs, files, require_logging, 1)
            /\ fs' = [fs EXCEPT !.disk = [p \in Paths |->
                                             IF p \in Range(files) THEN CodeLogged
                                             ELSE fs.disk[p]]]
            /\ pc' = "plan"
    /\ UNCHANGED << call, files, max_iterations, require_logging, target_dir,
                    memory, iteration, success, final_status, history,
                    global_plan, fix_result, pytest_output, pylint_output,
                    judgement, judge_oracle >>

\* self.audit_files(): read_file raises for a file that cannot be read.
AuditFiles ==
    /\ pc = "audit"
    /\ phases' = Append(phases, "audit")
    /\ IF \E i \in DOMAIN files :
             \/ read_file(fs, files[i]).raised
             \/ audit_raises(read_file(fs, files[i]).text)
       THEN /\ pc' = "raised"
            /\ UNCHANGED reports
       ELSE /\ reports' = AuditReports(fs, files, require_logging, 1)
            /\ pc' = "plan"
    /\ UNCHANGED << call, files, max_iterations, require_logging, target_dir,
                    fs, memory, iteration, success, final_status, history,
                    global_plan, fix_result, pytest_output, pylint_output,
                    judgement, judge_oracle >>

\* global_plan = self.build_global_plan_from_memory()
BuildGlobalPlan ==
    /\ pc = "plan"
    /\ phases' = Append(phases, "plan")
    /\ \E oracle \in PlannerOracles :
         LET built == build_global_plan_from_memory(files, oracle)
         IN  IF built.raised
             THEN /\ pc' = "raised"
                  /\ UNCHANGED global_plan
             ELSE /\ global_plan' = built.plan
                  /\ pc' = "fix"
    /\ UNCHANGED << call, files, max_iterations, require_logging, target_dir,
                    fs, memory, iteration, success, final_status, history,
                    reports, fix_result, pytest_output, pylint_output,
                    judgement, judge_oracle >>

\* fix_result = self.fixer.apply_refactoring_plan(global_plan)
ApplyFixes ==
    /\ pc = "fix"
    /\ phases' = Append(phases, "fix")
    /\ \E oracles \in [DOMAIN global_plan.files_to_fix -> FixerOracles] :
         LET applied == apply_refactoring_plan(fs, global_plan, oracles)
         IN  /\ fs' = applied.fs
             /\ fix_result' = applied.summary
    /\ pc' = "pytest"
    /\ UNCHANGED << call, files, max_iterations, require_logging, target_dir,
                    memory, iteration, success, final_status, history, reports,
                    global_plan, pytest_output, pylint_output, judgement,
                    judge_oracle >>

\* pytest_output = run_pytest(target_dir)
RunPytest ==
    /\ pc = "pytest"
    /\ phases' = Append(phases, "pytest")
    /\ \E outcome \in PytestOutcomes :
         LET ran == run_pytest(target_dir, outcome)
         IN  IF ran.raised
             THEN /\ pc' = "raised"
                  /\ UNCHANGED pytest_output
             ELSE /\ pytest_output' = ran.text
                  /\ pc' = "pylint"
    /\ UNCHANGED << call, files, max_iterations, require_logging, target_dir,
                    fs, memory, iteration, success, final_status, history,
                    reports, global_plan, fix_result, pylint_output, judgement,
                    judge_oracle >>

\* pylint_output = run_pylint(target_dir)
RunPylint ==
    /\ pc = "pylint"
    /\ phases' = Append(phases, "pylint")
    /\ \E outcome \in PylintOutcomes :
         LET ran == run_pylint(target_dir, outcome)
         IN  IF ran.raised
             THEN /\ pc' = "raised"
                  /\ UNCHANGED pylint_output
             ELSE /\ pylint_output' = ran.text
                  /\ pc' = "judge"
    /\ UNCHANGED << call, files, max_iterations, require_logging, target_dir,
                    fs, memory, iteration, success, final_status, history,
                    reports, global_plan, fix_result, pytest_output, judgement,
                    judge_oracle >>

\* judgement = self.judge.evaluate(pytest_output, pylint_output)
Judge ==
    /\ pc = "judge"
    /\ phases' = Append(phases, "judge")
    /\ \E oracle \in JudgeOracles :
         /\ judge_oracle' = oracle
         /\ judgement' = evaluate(pytest_output, pylint_output, oracle)
    /\ pc' = "decide"
    /\ UNCHANGED << call, files, max_iterations, require_logging, target_dir,
                    fs, memory, iteration, success, final_status, history,
                    reports, global_plan, fix_result, pytest_output,
                    pylint_output >>

\* Mutant of HistoryRecord: the record is stamped before the increment.
HistoryRecordStale ==
    [ iteration      |-> iteration - 1,
      fix_status     |-> Get(fix_result, "overall_status", "UNKNOWN"),
      judge_decision |-> judgement.decision,
      judge_reason   |-> judgement.reason ]

\* The record appended to history in one iteration.
HistoryRecord ==
    [ iteration      |-> iteration,
      fix_status     |-> Get(fix_result, "overall_status", "UNKNOWN"),
      judge_decision |-> judgement.decision,
      judge_reason   |-> judgement.reason ]

\* Mutant of Decide: the loop also wants the fix phase to be COMPLETE
\* before it stops.
DecideWantsCompleteFix ==
    /\ pc = "decide"
    /\ history' = Append(history,
                         [ iteration      |-> iteration,
                           fix_status     |-> Get(fix_result, "overall_status", "UNKNOWN"),
                           judge_decision |-> judgement.decision,
                           judge_reason   |-> judgement.reason ])
    /\ IF /\ judgement.decision = "SUCCESS"
          /\ Get(fix_result, "overall_status", "UNKNOWN") = "COMPLETE"
       THEN /\ success' = TRUE
            /\ final_status' = "SUCCESS"
            /\ pc' = "done"
       ELSE /\ pc' = "while"
            /\ UNCHANGED << success, final_status >>
    /\ UNCHANGED << call, files, max_iterations, require_logging, target_dir,
                    fs, memory, iteration, reports, global_plan, fix_result,
                    pytest_output, pylint_output, judgement, judge_oracle,
                    phases >>

\* run, lines 209-242: the record is appended, the iteration is logged, and
\* a SUCCESS decision breaks out of the loop to the return.
Decide ==
    /\ pc = "decide"
    /\ history' = Append(history, HistoryRecord)
    /\ IF judgement.decision = "SUCCESS"
       THEN /\ success' = TRUE
            /\ final_status' = "SUCCESS"
            /\ pc' = "done"
       ELSE /\ pc' = "while"
            /\ UNCHANGED << success, final_status >>
    /\ UNCHANGED << call, files, max_iterations, require_logging, target_dir,
                    fs, memory, iteration, reports, global_plan, fix_result,
                    pytest_output, pylint_output, judgement, judge_oracle,
                    phases >>

\* The loop test fails: run returns its result.
Return ==
    /\ pc = "while"
    /\ ~ LoopCondition
    /\ pc' = "done"
    /\ UNCHANGED << call, files, max_iterations, require_logging, target_dir,
                    fs, memory, iteration, success, final_status, history,
                    reports, global_plan, fix_result, pytest_output,
                    pylint_output, judgement, judge_oracle, phases >>

\* Mutant of result: the cap is reported as the number of iterations.
resultReportsCap ==
    [ status     |-> final_status,
      success    |-> success,
      iterations |-> max_iterations,
      history    |-> history ]

\* What run returns.
result ==
    [ status     |-> final_status,
      success    |-> success,
      iterations |-> iteration,
      history    |-> history ]

Next ==
    \/ GenerateInitialPlan
    \/ NextIteration
    \/ AuditFiles
    \/ BuildGlobalPlan
    \/ ApplyFixes
    \/ RunPytest
    \/ RunPylint
    \/ Judge
    \/ Decide
    \/ Return

Spec == Init /\ [][Next]_vars

\* ------------------------------------------- JudgeAgent.evaluate by itself

\* Test outputs, lint outputs and model replies evaluate is called with.
JudgeTestOutputs ==
    { <<>>, PYTEST_PASSED, PYTEST_PASSED_0_FAILED, PYTEST_PASSED_1_FAILED,
      COMMAND_TIMED_OUT, DIRECTORY_DOES_NOT_EXIST \o DIR_MISSING }

JudgeLintOutputs ==
    { <<>>, PYLINT_COSMETIC,
      PYLINT_COSMETIC \o <<"\n">> \o PYLINT_COSMETIC_ERROR,
      PYLINT_CRITICAL,
      PYLINT_COSMETIC \o <<"\n">> \o PYLINT_CRITICAL,
      COMMAND_TIMED_OUT }

AllJudgeOracles ==
    { OracleDown, VerdictSuccess, VerdictRetry,
      Reply(JsonDict([reason |-> REASON_OK])),
      Reply(JsonDict([decision |-> "FAIL", reason |-> <<>>])),
      Reply(JsonList),
      Reply(Prose),
      Reply([form |-> "braces"]),
      Reply([form |-> "embedded",
             value |-> [type |-> "dict", fields |-> [decision |-> "SUCCESS"]]]),
      Reply([form |-> "smart",
             value |-> [type |-> "dict",
                        fields |-> [decision |-> "RETRY", reason |-> REASON_OK]]]) }

JudgeInit ==
    /\ files = <<>>
    /\ max_iterations = 0
    /\ require_logging = TRUE
    /\ target_dir \in {d \in TargetDirs : d.exists /\ d.in_sandbox}
    /\ fs = [ disk |-> [p \in Paths |-> Absent],
               bak  |-> [p \in Paths |-> Absent],
               dirs |-> {"sandbox", "project"} ]
    /\ memory = None
    /\ pc = "evaluate"
    /\ iteration = 0
    /\ success = FALSE
    /\ final_status = "MAX_ITERATIONS_REACHED"
    /\ history = <<>>
    /\ reports = <<>>
    /\ global_plan = None
    /\ fix_result = None
    /\ pytest_output \in JudgeTestOutputs
    /\ pylint_output \in JudgeLintOutputs
    /\ judgement = None
    /\ judge_oracle \in AllJudgeOracles
    /\ phases = <<>>
    /\ call = None

\* One call of evaluate(pytest_output, pylint_output).
Evaluate ==
    /\ pc = "evaluate"
    /\ judgement' = evaluate(pytest_output, pylint_output, judge_oracle)
    /\ pc' = "evaluated"
    /\ UNCHANGED << call, files, max_iterations, require_logging, target_dir,
                    fs, memory, iteration, success, final_status, history,
                    reports, global_plan, fix_result, pytest_output,
                    pylint_output, judge_oracle, phases >>

JudgeSpec == JudgeInit /\ [][Evaluate]_vars

\* --------------------------------------------- the agents and tools by themselves

\* The locals of run before run has started.
LocalsUnset ==
    /\ memory = None
    /\ iteration = 0
    /\ success = FALSE
    /\ final_status = "MAX_ITERATIONS_REACHED"
    /\ history = <<>>
    /\ reports = <<>>
    /\ global_plan = None
    /\ fix_result = None
    /\ pytest_output = <<>>
    /\ pylint_output = <<>>
    /\ judgement = None
    /\ judge_oracle = None
    /\ phases = <<>>

\* A file system in which the files of fileList hold contents of `codes`
\* and nothing else exists.
FsWith(fileList, codes, dirs) ==
    { [ disk |-> [p \in Paths |-> IF p \in Range(fileList) THEN d[p] ELSE Absent],
        bak  |-> [p \in Paths |-> Absent],
        dirs |-> dirs ] :
        d \in [Range(fileList) -> codes] }

\* ---- AuditorAgent.audit, called as agentsTests/test_auditor_agent.py does

\* ---- run, constructed with any integer as max_iterations

\* max_iterations is an int the constructor stores unchecked; the command
\* line takes a negative number as well.
CapInit ==
    /\ files \in FileLists
    /\ max_iterations \in -1..MaxIter
    /\ require_logging = TRUE
    /\ target_dir \in TargetDirs
    /\ fs \in InitialFs(files)
    /\ pc = "start"
    /\ call = None
    /\ LocalsUnset

CapSpec == CapInit /\ [][Next]_vars

\* What can become of the record handed to the experiment log.
LogOutcomes == {"written", "failed"}

\* log_experiment(agent_name, model_used, action, details, status): fire and
\* forget; a record that cannot be written is dropped and the caller goes on.
log_experiment(outcome) == [raised |-> FALSE, recorded |-> outcome = "written"]

AuditCodes ==
    { CodeLogged, CodeEval, CodePlain, CodeExec, CodePickle, CodeCalls,
      CodeBroken, CodeBrokenLogged, CodeNul, CodeNulValueError, CodeEmpty,
      CodeStub }

\* What the audit call of the model can come back with.
AuditorOracles ==
    { OracleDown,
      Reply(Prose),
      Reply(JsonDict([issues |-> <<>>])),
      Reply(JsonDict([status |-> "FAIL", severity |-> <<"HIGH">>])) }

AuditInit ==
    /\ files = <<PathCalc>>
    /\ max_iterations = 0
    /\ require_logging \in BOOLEAN
    /\ target_dir \in {d \in TargetDirs : d.exists /\ d.in_sandbox}
    /\ fs \in FsWith(files, AuditCodes, {"sandbox", "project"})
    /\ pc = "audit_call"
    /\ call = None
    /\ LocalsUnset

\* report = agent.audit(file_path, code, require_logging)
Audit ==
    /\ pc = "audit_call"
    /\ \E oracle \in AuditorOracles, outcome \in LogOutcomes :
         LET code == read_file(fs, files[1]).text
         IN  /\ call' = [ op     |-> "audit",
                          code   |-> code,
                          oracle |-> oracle,
                          log    |-> IF audit_raises(code) THEN "not called"
                                     ELSE outcome ]
             /\ IF audit_raises(code) \/ log_experiment(outcome).raised
                THEN /\ pc' = "raised"
                     /\ UNCHANGED reports
                ELSE /\ reports' = <<audit(files[1], code, require_logging,
                                           Auditor_ask_llm(oracle))>>
                     /\ pc' = "audited"
    /\ UNCHANGED << files, max_iterations, require_logging, target_dir, fs,
                    memory, iteration, success, final_status, history,
                    global_plan, fix_result, pytest_output, pylint_output,
                    judgement, judge_oracle, phases >>

AuditSpec == AuditInit /\ [][Audit]_vars

\* ---- FixerAgent.apply_refactoring_plan, batch after batch

\* An entry of files_to_fix without a path.
EntryWithoutPath == [issues |-> <<>>, suggestions |-> <<>>]

\* The plans handed to apply_refactoring_plan.
FixPlans ==
    { [ files_to_fix |-> entries,
        global_plan  |-> [summary |-> NO_SUMMARY] ] :
        entries \in { <<FixEntry(PathCalc)>>,
                      <<FixEntry(PathCalc), FixEntry(PathOutside)>>,
                      <<FixEntry(PathCalc), FixEntry(PathUtil)>>,
                      <<EntryWithoutPath, FixEntry(PathUtil)>> } }

\* What the fixing call for one file can come back with here.
FixReplies ==
    {OracleDown, Reply(CodeLogged), Reply(CodeEmpty), Reply(Fenced(CodeStub))}

FixInit ==
    /\ files = <<PathCalc, PathUtil, PathOutside>>
    /\ max_iterations \in 1..MaxIter
    /\ require_logging = TRUE
    /\ target_dir \in {d \in TargetDirs : d.exists /\ d.in_sandbox}
    /\ fs \in FsWith(files, {CodeLogged, CodeStub, Absent}, {"sandbox", "project"})
    /\ pc = "apply"
    /\ call = None
    /\ LocalsUnset

\* fix_result = fixer.apply_refactoring_plan(plan); `iteration` counts the
\* batches and `call` keeps the plan, the replies and the files before it.
ApplyPlan ==
    /\ pc = "apply"
    /\ iteration < max_iterations
    /\ iteration' = iteration + 1
    /\ \E plan \in FixPlans :
         \E oracles \in [DOMAIN plan.files_to_fix -> FixReplies] :
            LET applied == apply_refactoring_plan(fs, plan, oracles)
            IN  /\ global_plan' = plan
                /\ fs' = applied.fs
                /\ fix_result' = applied.summary
                /\ call' = [ op      |-> "apply_refactoring_plan",
                             oracles |-> oracles,
                             before  |-> fs ]
    /\ UNCHANGED << files, max_iterations, require_logging, target_dir,
                    memory, pc, success, final_status, history, reports,
                    pytest_output, pylint_output, judgement, judge_oracle,
                    phases >>

FixSpec == FixInit /\ [][ApplyPlan]_vars

\* ---- write_file, call after call

\* The texts write_file is called with.
WriteContents == {CodeLogged, CodeStub}

WriteInit ==
    /\ files = <<PathCalc, PathOutside>>
    /\ max_iterations \in 1..MaxIter
    /\ require_logging = TRUE
    /\ target_dir \in {d \in TargetDirs : d.exists /\ d.in_sandbox}
    /\ fs \in FsWith(files, {CodeEval, Absent}, {"sandbox", "project"})
    /\ pc = "write"
    /\ call = None
    /\ LocalsUnset

\* write_file(path, content); `iteration` counts the calls and `call` keeps
\* the arguments, whether the call raised, and the files before it.
WriteFile ==
    /\ pc = "write"
    /\ iteration < max_iterations
    /\ iteration' = iteration + 1
    /\ \E path \in PathArgs, content \in WriteContents :
         LET wrote == write_file(fs, path, content)
         IN  /\ fs' = wrote.fs
             /\ call' = [ op      |-> "write_file",
                          path    |-> path,
                          content |-> content,
                          raised  |-> wrote.raised,
                          before  |-> fs ]
    /\ UNCHANGED << files, max_iterations, require_logging, target_dir,
                    memory, pc, success, final_status, history, reports,
                    global_plan, fix_result, pytest_output, pylint_output,
                    judgement, judge_oracle, phases >>

WriteSpec == WriteInit /\ [][WriteFile]_vars

\* ---- create_dependency_graph, as step 1 of run calls it

\* The tracked files the graph is built from, a notebook among them.
GraphFileLists ==
    { <<>>,
      <<PathCalc>>,
      <<PathCalc, PathUtil>>,
      <<PathUtil, PathCalc>>,
      <<PathCalc, PathNotes>>,
      <<PathTestCalc, PathCalc, PathUtil>> }

GraphCodes == {CodeLogged, CodeEval, CodePlain, CodeCalls, CodeBroken, Absent}

GraphInit ==
    /\ files \in GraphFileLists
    /\ max_iterations = 0
    /\ require_logging = TRUE
    /\ target_dir \in {d \in TargetDirs : d.exists /\ d.in_sandbox}
    /\ fs \in FsWith(files, GraphCodes, {"sandbox", "project"})
    /\ pc = "start"
    /\ call = None
    /\ LocalsUnset

GraphSpec == GraphInit /\ [][GenerateInitialPlan]_vars

\* ------------------------------------------------------------------ claims

\* The iterations whose body ran to its end.
Completed == IF pc \in {"while", "done"} THEN iteration
             ELSE IF iteration = 0 THEN 0 ELSE iteration - 1

Last(seq) == seq[Len(seq)]

AllPhases == <<"audit", "plan", "fix", "pytest", "pylint", "judge">>

\* The steps run can still take at most: eight per iteration left, and the
\* rest of the iteration it is in.
StepsLeft ==
    (max_iterations - iteration) * Len(AllPhases \o <<"decide", "while">>)
    + CASE pc \in {"done", "raised"} -> 0
        [] pc = "while" -> 1
        [] pc \in {"decide", "start"} -> 2
        [] pc = "judge" -> 3
        [] pc = "pylint" -> 4
        [] pc = "pytest" -> 5
        [] pc = "fix" -> 6
        [] pc = "plan" -> 7
        [] pc = "audit" -> 8

\* C1: run ends after at most max_iterations iterations, and the status it
\* returns is SUCCESS or MAX_ITERATIONS_REACHED: the iteration count never
\* passes max_iterations, every step of run uses up one of a bounded number
\* of steps, run is never stuck before it has ended, and a returned status
\* is one of the two.
C1_RunTerminates ==
    /\ [](iteration <= max_iterations)
    /\ [](pc = "done" => result.status \in {"SUCCESS", "MAX_ITERATIONS_REACHED"})
    /\ [](pc \notin {"done", "raised"} => ENABLED Next)
    /\ [][StepsLeft' < StepsLeft /\ StepsLeft' >= 0]_vars

\* C1 witness: a run that used every iteration it was allowed.
C1_Witness ==
    /\ pc = "done"
    /\ max_iterations = MaxIter
    /\ result.iterations = max_iterations
    /\ result.status = "MAX_ITERATIONS_REACHED"

\* C2: the run succeeds exactly when the Judgement of its last iteration is
\* SUCCESS, nothing runs after the first SUCCESS, a decision that is not
\* SUCCESS is followed by another iteration while iterations are left, and
\* the fix status plays no part.
C2_DecisionIsSoleAuthority ==
    /\ \A k \in 1..(Len(history) - 1) : history[k].judge_decision # "SUCCESS"
    /\ (history # <<>> /\ Last(history).judge_decision = "SUCCESS")
         => (pc = "done" /\ iteration = Len(history))
    /\ pc = "done" =>
         /\ result.success <=> result.status = "SUCCESS"
         /\ result.success <=>
              (history # <<>> /\ Last(history).judge_decision = "SUCCESS")
         /\ ~ result.success => Len(history) = max_iterations

\* C2 witness: a run that succeeded although its fix phase was not COMPLETE.
C2_Witness ==
    /\ pc = "done"
    /\ result.success
    /\ Last(history).fix_status = "PARTIAL"

\* C3: run never raises; it always returns a result with status SUCCESS or
\* MAX_ITERATIONS_REACHED.
C3_RunNeverRaises == pc # "raised"

\* C4: in every iteration the test runner, the linter and the Judge are
\* called before the decision, so SUCCESS follows a Judge evaluation of the
\* same iteration.
C4_JudgeBeforeSuccess ==
    /\ pc = "decide" => phases = AllPhases
    /\ (pc \in {"while", "done"} /\ iteration > 0) => phases = AllPhases
    /\ final_status = "SUCCESS" =>
         /\ phases = AllPhases
         /\ judgement.decision = "SUCCESS"

\* C4 witness: a run that ended in SUCCESS in an iteration whose audit
\* found every file PASS.
C4_Witness ==
    /\ pc = "done"
    /\ final_status = "SUCCESS"
    /\ reports # <<>>
    /\ \A i \in DOMAIN reports : reports[i].status = "PASS"

\* C5: the plan of an iteration has a fix entry for a file exactly when the
\* audit of that iteration did not find the file PASS.
C5_PlanHoldsOnlyNonPassFiles ==
    pc = "fix" =>
        \A i \in DOMAIN files :
            (\E e \in Range(global_plan.files_to_fix) : e.path = files[i])
            <=> reports[i].status # "PASS"

\* C6: in every iteration after the first, the plan entries carry the
\* reason of the previous iteration's Judgement.
C6_JudgeFeedbackInPlan ==
    (pc = "fix" /\ iteration > 1) =>
        \A e \in Range(global_plan.files_to_fix) :
            \/ judgement.reason \in Range(e.issues)
            \/ judgement.reason \in Range(e.suggestions)
            \/ judgement.reason = e.llm_feedback

\* What a history record holds besides the iteration number and the results
\* of the fix and judge phases.
OtherFields(rec) ==
    DOMAIN rec \ {"iteration", "fix_status", "judge_decision", "judge_reason"}

OnlyCosmetic(output) ==
    /\ output # <<>>
    /\ \A line \in Range(split(output)) :
          \E code \in ignore_codes : Contains(code, line)

\* C8: cosmetic-only lint with a passing test output, "1 passed, 0 failed"
\* included, is decided SUCCESS whatever the model answered.
C8_CosmeticLintIsSuccess ==
    ( /\ pc = "evaluated"
      /\ pytest_output \in {PYTEST_PASSED, PYTEST_PASSED_0_FAILED}
      /\ OnlyCosmetic(pylint_output) )
    => judgement.decision = "SUCCESS"

\* C9: test output "1 passed, 1 failed" with clean lint is decided RETRY,
\* with a reason that shows the failures, whatever the model answered.
C9_FailedTestIsRetry ==
    ( /\ pc = "evaluated"
      /\ pytest_output = PYTEST_PASSED_1_FAILED
      /\ pylint_output = <<>> )
    => /\ judgement.decision = "RETRY"
       /\ Contains(pytest_output, judgement.reason)

\* The model call failed, or its reply holds no JSON object.
NoVerdict(oracle) ==
    \/ ~ oracle.ok
    \/ oracle.text.form \in {"prose", "braces"}
    \/ oracle.text.form = "json" /\ oracle.text.value.type # "dict"

\* C10 as stated: without a verdict from the model, evaluate returns RETRY.
C10_NoVerdictIsRetry ==
    (pc = "evaluated" /\ NoVerdict(judge_oracle)) => judgement.decision = "RETRY"

\* C10 amended: without a verdict from the model, evaluate returns a
\* Judgement (it does not raise) whose decision the texts alone settle:
\* RETRY when the test output contains "fail" or a lint line without a
\* cosmetic code contains "error" (in any case), SUCCESS otherwise.
C10_NoVerdictDecidedByTexts ==
    (pc = "evaluated" /\ NoVerdict(judge_oracle)) =>
        /\ judgement.agent = "JudgeAgent"
        /\ judgement.decision = "RETRY" <=>
             \/ Contains(STR_FAIL, lower(pytest_output))
             \/ \E line \in Range(split(pylint_output)) :
                   /\ Contains(STR_ERROR, lower(line))
                   /\ \A code \in ignore_codes : ~ Contains(code, line)
        /\ judgement.decision \in {"SUCCESS", "RETRY"}

\* C10 witness: the model call failed and the decision is SUCCESS.
C10_Witness ==
    /\ pc = "evaluated"
    /\ ~ judge_oracle.ok
    /\ judgement.decision = "SUCCESS"

\* What the model answered in its decision field, "None" when it gave none.
OracleDecision(oracle) ==
    IF /\ oracle.ok
       /\ oracle.text.form \in {"json", "embedded", "smart"}
       /\ oracle.text.value.type = "dict"
    THEN Get(oracle.text.value.fields, "decision", "None")
    ELSE "None"

\* C11: every Judgement evaluate returns has decision SUCCESS or RETRY,
\* whatever the model replied (no decision, another string, no object) and
\* whatever the test and lint texts are.
C11_DecisionIsSuccessOrRetry ==
    pc = "evaluated" =>
        /\ judgement.agent = "JudgeAgent"
        /\ judgement.decision \in {"SUCCESS", "RETRY"}

\* C11 witness: the model answered with a decision that is neither SUCCESS
\* nor RETRY, and the Judgement is SUCCESS.
C11_Witness ==
    /\ pc = "evaluated"
    /\ OracleDecision(judge_oracle) \notin {"SUCCESS", "RETRY", "None"}
    /\ judgement.decision = "SUCCESS"

\* C12: audit resolves the status from the severities it gathered: FAIL with
\* a HIGH finding, else WARN with any finding, else PASS; the feedback of
\* the model is stored and never changes the status.
C12_StatusFromSeverities ==
    pc = "audited" =>
        LET report == reports[1]
        IN  /\ report.status =
                  (IF \E i \in DOMAIN report.severity : report.severity[i] = "HIGH"
                   THEN "FAIL"
                   ELSE IF Len(report.issues) > 0 THEN "WARN"
                   ELSE "PASS")
            /\ Len(report.severity) = Len(report.issues)
            /\ report.llm_feedback = Auditor_ask_llm(call.oracle)
            /\ \A other \in AuditorOracles :
                  audit(files[1], call.code, require_logging,
                        Auditor_ask_llm(other)).status = report.status

\* C12 witness: the model answered FAIL with severity HIGH for a file the
\* rules find nothing in, and the status is PASS.
C12_Witness ==
    /\ pc = "audited"
    /\ call.oracle = Reply(JsonDict([status |-> "FAIL", severity |-> <<"HIGH">>]))
    /\ reports[1].issues = <<>>
    /\ reports[1].status = "PASS"

\* The callee of a call as the source text spells it.
Dotted(callee) ==
    IF Len(callee) = 1 THEN callee[1]
    ELSE IF callee = <<"pickle", "loads">> THEN "pickle.loads"
    ELSE IF callee = <<"logging", "info">> THEN "logging.info"
    ELSE "other"

\* C13: a text with a call to a name of the deny-set (eval, exec,
\* __import__, pickle.loads) is audited with a HIGH finding for that call
\* and status FAIL.
C13_DeniedCallFails ==
    pc = "audited" =>
        \A i \in DOMAIN call.code.calls :
            Dotted(call.code.calls[i].callee) \in forbidden_calls =>
                /\ reports[1].status = "FAIL"
                /\ \E j \in DOMAIN reports[1].issues :
                      /\ reports[1].issues[j].issue = "Forbidden call"
                      /\ reports[1].issues[j].lineno = call.code.calls[i].lineno
                      /\ reports[1].severity[j] = "HIGH"

\* No call of the text names a member of the deny-set.
NoDeniedCall(code) ==
    \A i \in DOMAIN code.calls : Dotted(code.calls[i].callee) \notin forbidden_calls

\* C14 as stated: a text without a denied call and without a NUL, audited
\* with require_logging = false, is PASS with no issue, whether or not the
\* text parses.
C14_CleanTextPassesEvenUnparsed ==
    (/\ pc = "audited"
     /\ ~ require_logging
     /\ NoDeniedCall(call.code)
     /\ ~ call.code.nul)
        => /\ reports[1].status = "PASS"
           /\ reports[1].issues = <<>>

\* C14: a text that parses, has no denied call and no NUL, audited with
\* require_logging = false, is PASS with no issue for every outcome of the
\* model call; a text that does not parse is FAIL with the finding
\* "Syntax error: unable to parse file" at severity HIGH.
C14_CleanParsedTextPasses ==
    pc = "audited" =>
        /\ (/\ ~ require_logging
            /\ call.code.parse = "tree"
            /\ NoDeniedCall(call.code)
            /\ ~ call.code.nul)
               => /\ reports[1].status = "PASS"
                  /\ reports[1].issues = <<>>
                  /\ reports[1].severity = <<>>
        /\ call.code.parse # "tree"
               => /\ reports[1].status = "FAIL"
                  /\ reports[1].issues[1].issue = "Syntax error: unable to parse file"
                  /\ reports[1].severity[1] = "HIGH"

\* C14 witness: a text with calls to print and logging.info and without
\* log_experiment was audited PASS although the model call failed.
C14_Witness ==
    /\ pc = "audited"
    /\ ~ require_logging
    /\ call.code = CodeCalls
    /\ call.oracle = OracleDown
    /\ reports[1].status = "PASS"
    /\ reports[1].issues = <<>>

\* C15: a fix never leaves a tracked file near-empty that was not so before:
\* a file of 20 characters or more before a batch of fixes still has 20
\* characters or more after it.
C15_OriginalKeptOnNearEmptyReply ==
    (pc = "apply" /\ iteration > 0) =>
        \A i \in DOMAIN files :
            LET original == call.before.disk[resolve(files[i])]
                current == fs.disk[resolve(files[i])]
            IN  (original.exists /\ original.size >= 20)
                    => (current.exists /\ current.size >= 20)

\* C16: a fix that succeeded reports changes_applied = true exactly when
\* the content it wrote differs from the content the file had before.
C16_ChangesAppliedIffDifferent ==
    (pc = "apply" /\ iteration > 0) =>
        \A j \in DOMAIN fix_result.file_results :
            LET one == fix_result.file_results[j]
                original == call.before.disk[resolve(one.file)]
                written == fs.disk[resolve(one.file)]
            IN  one.status = "SUCCESS"
                    => (one.changes_applied <=> written # original)

\* C17: the summary of a batch has overall_status COMPLETE when no file
\* failed, PARTIAL_SUCCESS when a file failed and a file succeeded, and
\* FAILURE when files failed and none succeeded.
C17_OverallStatusOfBatch ==
    (pc = "apply" /\ iteration > 0) =>
        /\ fix_result.overall_status \in {"COMPLETE", "PARTIAL_SUCCESS", "FAILURE"}
        /\ fix_result.overall_status =
              (IF fix_result.failed = 0 THEN "COMPLETE"
               ELSE IF fix_result.successful > 0 THEN "PARTIAL_SUCCESS"
               ELSE "FAILURE")

\* C18: after a write_file that overwrote an existing file, the .bak sibling
\* holds exactly the content the file had immediately before that write and
\* the file holds the content written; no other backup is touched, so one
\* generation is kept. A write that created the file leaves the backups as
\* they were.
C18_BackupHoldsPreviousContent ==
    (pc = "write" /\ iteration > 0 /\ ~ call.raised) =>
        LET file_path == resolve(call.path)
            backup_path == absolute(call.path)
            previous == call.before.disk[file_path]
        IN  /\ fs.disk[file_path] = call.content
            /\ previous.exists => fs.bak[backup_path] = previous
            /\ ~ previous.exists => fs.bak = call.before.bak
            /\ \A p \in Paths \ {backup_path} : fs.bak[p] = call.before.bak[p]

\* C18 witness: a second write of the same file replaced an older backup by
\* the content that stood between the two writes.
C18_Witness ==
    /\ pc = "write"
    /\ iteration > 1
    /\ ~ call.raised
    /\ call.before.bak[absolute(call.path)].exists
    /\ fs.bak[absolute(call.path)] = call.before.disk[resolve(call.path)]
    /\ fs.bak[absolute(call.path)] # call.before.bak[absolute(call.path)]
    /\ fs.disk[resolve(call.path)] # fs.bak[absolute(call.path)]

\* The path arguments that name a file outside the sandbox: directly,
\* through "..", or through a symbolic link.
OutsideSandbox == {PathOutside, PathDotDot, PathLink}

\* C19: write_file raises exactly for the paths that lead outside the
\* sandbox, however they are written, and then leaves the file system as it
\* was: no directory, no backup, no file is created or changed. For a path
\* inside the sandbox it does not raise, and the file holds the content.
C19_WriteOutsideSandboxRaises ==
    (pc = "write" /\ iteration > 0) =>
        /\ call.raised <=> call.path \in OutsideSandbox
        /\ call.raised => fs = call.before
        /\ ~ call.raised =>
              /\ fs.disk[resolve(call.path)] = call.content
              /\ resolve(call.path).parent \in fs.dirs
        /\ \A p \in Paths : p.parent \notin SandboxDirs =>
              /\ fs.disk[p] = call.before.disk[p]
              /\ fs.bak[p] = call.before.bak[p]

\* C19 witness: a write through the symbolic link sandbox/link.py, whose
\* target lies outside, raised and changed nothing.
C19_Witness ==
    /\ pc = "write"
    /\ iteration > 0
    /\ call.path = PathLink
    /\ call.raised
    /\ fs = call.before

\* C20: every file create_dependency_graph is given is a key of the graph
\* it returns: a file without dependencies, a file that does not parse or
\* cannot be read, and a tracked file whose extension is not .py.
C20_EveryFileIsKey ==
    pc = "while" =>
        \A i \in DOMAIN files : files[i] \in DOMAIN memory.dependency_graph

\* The characters of file names, in the order the strings compare by.
CharOrder ==
    << ".", "_", "a", "b", "c", "d", "e", "f", "g", "h", "i", "j", "k", "l", "m",
       "n", "o", "p", "q", "r", "s", "t", "u", "v", "w", "x", "y", "z" >>

CharRank(c) == CHOOSE i \in DOMAIN CharOrder : CharOrder[i] = c

\* a < b for two names, as Python compares strings.
RECURSIVE NameLess(_, _)
NameLess(a, b) ==
    IF b = <<>> THEN FALSE
    ELSE IF a = <<>> THEN TRUE
    ELSE IF Head(a) = Head(b) THEN NameLess(Tail(a), Tail(b))
    ELSE CharRank(Head(a)) < CharRank(Head(b))

\* C21: file_order lists the files by ascending number of dependencies
\* and, among files with the same number, by file name.
C21_OrderByCountThenName ==
    pc = "while" =>
        LET order == memory.file_order
            n(f) == Len(memory.dependency_graph[f])
        IN  \A i, j \in DOMAIN order :
                i < j => \/ n(order[i]) < n(order[j])
                         \/ /\ n(order[i]) = n(order[j])
                            /\ NameLess(order[i].name, order[j].name)

\* C22: in every iteration the files are audited, and entered in the plan
\* the Fixer works through, in the order of the dependency heuristic: a file
\* with fewer dependencies never comes after a file with more.
C22_AuditAndFixInDependencyOrder ==
    LET n(f) == Len(memory.dependency_graph[f])
    IN  /\ pc \in {"plan", "fix", "pytest", "pylint", "judge", "decide"} =>
              \A i, j \in DOMAIN reports :
                  i < j => n(reports[i].file) <= n(reports[j].file)
        /\ pc \in {"fix", "pytest", "pylint", "judge", "decide"} =>
              \A i, j \in DOMAIN global_plan.files_to_fix :
                  i < j => n(global_plan.files_to_fix[i].path)
                               <= n(global_plan.files_to_fix[j].path)

\* C23: the test runner and the lint runner never raise: whatever the
\* target is and whatever the command did, the step of run that calls
\* them gets a text back.
C23_RunnersNeverRaise ==
    (pc = "raised" /\ phases # <<>>) => Last(phases) \notin {"pytest", "pylint"}

\* C24: for the same test output and lint output, evaluate decides the same
\* whatever the model replied: the decision equals the one reached with a
\* reply of SUCCESS and the one reached with a reply of RETRY.
C24_DecisionIndependentOfOracle ==
    pc = "evaluated" =>
        /\ evaluate(pytest_output, pylint_output, VerdictSuccess).decision
               = judgement.decision
        /\ evaluate(pytest_output, pylint_output, VerdictRetry).decision
               = judgement.decision

\* C25: when the test output is the timeout text of the runner and the
\* model did not answer SUCCESS, evaluate does not decide SUCCESS, also with
\* an empty or purely cosmetic lint output.
C25_TimeoutIsNotSuccess ==
    ( /\ pc = "evaluated"
      /\ pytest_output = COMMAND_TIMED_OUT
      /\ OracleDecision(judge_oracle) # "SUCCESS"
      /\ pylint_output \in {<<>>, PYLINT_COSMETIC} )
    => judgement.decision # "SUCCESS"

\* The entries of the plan of the last batch that have a path, and the
\* place in the plan of the i-th of them.
EntriesWithPath ==
    SelectSeq(global_plan.files_to_fix, LAMBDA entry : "path" \in DOMAIN entry)

PlanIndex(i) ==
    CHOOSE j \in DOMAIN global_plan.files_to_fix :
        /\ "path" \in DOMAIN global_plan.files_to_fix[j]
        /\ Cardinality({k \in 1..j : "path" \in DOMAIN global_plan.files_to_fix[k]}) = i

\* C26: a batch has exactly one result for every plan entry with a path, in
\* plan order, whatever happened to the entries before it; the result is
\* FAIL exactly when the file could not be read, the model call failed or
\* the write was refused, and successful + failed is the number of results.
C26_FailureDoesNotAbortBatch ==
    (pc = "apply" /\ iteration > 0) =>
        LET results == fix_result.file_results
        IN  /\ Len(results) = Len(EntriesWithPath)
            /\ \A i \in DOMAIN results :
                  /\ results[i].file = EntriesWithPath[i].path
                  /\ results[i].agent = "FixerAgent"
                  /\ results[i].status \in {"SUCCESS", "FAIL"}
                  /\ results[i].status = "SUCCESS" <=>
                        /\ call.before.disk[resolve(results[i].file)].exists
                        /\ call.oracles[PlanIndex(i)].ok
                        /\ resolve(results[i].file).parent \in SandboxDirs
            /\ fix_result.successful + fix_result.failed = Len(results)
            /\ fix_result.failed =
                  Cardinality({i \in DOMAIN results : results[i].status = "FAIL"})

\* C26 witness: the first entry of a batch failed because its model call
\* failed, and the entry after it was fixed.
C26_Witness ==
    /\ pc = "apply"
    /\ iteration > 0
    /\ Len(fix_result.file_results) = 2
    /\ ~ call.oracles[1].ok
    /\ fix_result.file_results[1].status = "FAIL"
    /\ fix_result.file_results[2].status = "SUCCESS"
    /\ fix_result.failed = 1

\* C27: a plan entry whose path does not exist on disk is skipped: it has no
\* file result and is counted neither as successful nor as failed, so a
\* batch whose other entries succeeded is COMPLETE.
C27_MissingFileIsSkipped ==
    (pc = "apply" /\ iteration > 0) =>
        LET results == fix_result.file_results
            existing == SelectSeq(EntriesWithPath,
                                  LAMBDA entry : call.before.disk[resolve(entry.path)].exists)
        IN  /\ \A i \in DOMAIN results :
                  call.before.disk[resolve(results[i].file)].exists
            /\ fix_result.successful + fix_result.failed = Len(existing)
            /\ (\A i \in DOMAIN results : results[i].status = "SUCCESS")
                  => fix_result.overall_status = "COMPLETE"

\* C28: the content of a file changes only in the fix step of run; the
\* graph build, the audit, the planning, the test and lint runs and the
\* Judge leave every file as it is, and no step removes a file.
C28_OnlyFixStepWrites ==
    [][ /\ fs.disk' # fs.disk => (pc = "fix" /\ pc' = "pytest")
        /\ \A p \in Paths : fs.disk[p].exists => fs.disk'[p].exists ]_vars

\* C28 witness: the fix step has replaced the content of a tracked file; the
\* backup holds what the file held before.
C28_Witness ==
    /\ pc = "pytest"
    /\ \E i \in DOMAIN files :
          /\ fs.bak[files[i]].exists
          /\ fs.disk[files[i]] # fs.bak[files[i]]

\* severity[i] of the report for the issue with this text, if it is there.
Finding(report, text, level) ==
    \E i \in DOMAIN report.issues :
        /\ report.issues[i].issue = text
        /\ report.severity[i] = level

\* C29: audit never raises and evaluates every rule: the three lists of the
\* report have the same length, the logging finding (MEDIUM) is there
\* exactly when logging is required and the marker is absent, the NUL
\* finding (HIGH) exactly when the text holds a NUL, and a text that does not
\* parse has the parse failure as a finding (HIGH), whatever the other rules
\* found.
C29_AllRulesEvaluated ==
    /\ pc # "raised"
    /\ pc = "audited" =>
          LET report == reports[1]
          IN  /\ Len(report.issues) = Len(report.severity)
              /\ Len(report.issues) = Len(report.suggestions)
              /\ Finding(report, "No logging detected with log_experiment", "MEDIUM")
                    <=> (require_logging /\ ~ call.code.log_marker)
              /\ Finding(report, "Null byte detected in file", "HIGH")
                    <=> call.code.nul
              /\ call.code.parse # "tree"
                    => Finding(report, "Syntax error: unable to parse file", "HIGH")

C31_DependenciesAreOrderedSet ==
    pc = "while" =>
        \A f \in DOMAIN memory.dependency_graph :
            LET deps == memory.dependency_graph[f]
            IN  /\ \A i \in DOMAIN deps : deps[i] \in DOMAIN memory.dependency_graph
                /\ \A i, j \in DOMAIN deps : deps[i] = deps[j] => i = j

\* C32: the history is append-only: every step of run leaves it as it is or
\* appends one record to it, and the record appended as the k-th carries
\* the iteration number k.
C32_HistoryAppendOnly ==
    [][ \/ history' = history
        \/ /\ Len(history') = Len(history) + 1
           /\ SubSeq(history', 1, Len(history)) = history
           /\ history'[Len(history')].iteration = Len(history') ]_vars

\* C32 witness: a second record was appended and the first is still the
\* record of iteration 1.
C32_Witness ==
    /\ Len(history) = 2
    /\ history[1].iteration = 1
    /\ history[2].iteration = 2
    /\ history[1].judge_decision = "RETRY"

\* C33: the dependency graph is built once, by the first step of run and
\* before any audit; no later step builds it again or changes it, although
\* the fixes change the files it was built from.
C33_GraphBuiltOnce ==
    /\ [](pc # "start" => "dependency_graph" \in DOMAIN memory)
    /\ [][ memory' # memory =>
              /\ pc = "start"
              /\ iteration = 0
              /\ phases = <<>>
              /\ memory' = generate_initial_plan_from_graph(fs, files) ]_vars

\* C33 witness: after a fix the files no longer have the imports the graph
\* was built from, and the graph is still the one of the start.
C33_Witness ==
    /\ pc = "pytest"
    /\ iteration > 0
    /\ memory.dependency_graph # create_dependency_graph(fs, files).graph

\* C34: a fix that reports FAIL has left the file and its backup as they
\* were; a fix that reports SUCCESS has left in the file the reply of the
\* model without its code fence, and nothing else.
C34_FailedFixWritesNothing ==
    (pc = "apply" /\ iteration > 0) =>
        \A i \in DOMAIN fix_result.file_results :
            LET one == fix_result.file_results[i]
                reply == call.oracles[PlanIndex(i)]
                before == call.before.disk[resolve(one.file)]
                after == fs.disk[resolve(one.file)]
            IN  /\ one.status = "FAIL" =>
                      /\ after = before
                      /\ fs.bak[absolute(one.file)] = call.before.bak[absolute(one.file)]
                /\ one.status = "SUCCESS" =>
                      /\ "fence" \notin DOMAIN after
                      /\ \A f \in DOMAIN after \ {"size"} : after[f] = reply.text[f]
                      /\ after.size = IF "fence" \in DOMAIN reply.text
                                      THEN reply.text.size - 14
                                      ELSE reply.text.size
                      /\ one.fixed_size = after.size
                      /\ fs.bak[absolute(one.file)] = before

\* C34 witness: the model call for an existing file of the sandbox failed;
\* the fix reports FAIL, the file is as before and has no backup.
C34_Witness ==
    /\ pc = "apply"
    /\ iteration > 0
    /\ Len(fix_result.file_results) > 0
    /\ fix_result.file_results[1].status = "FAIL"
    /\ fix_result.file_results[1].file = PathCalc
    /\ ~ call.oracles[PlanIndex(1)].ok
    /\ call.before.disk[PathCalc].exists
    /\ fs.disk[PathCalc] = call.before.disk[PathCalc]
    /\ ~ fs.bak[PathCalc].exists

\* C35 as stated: in the result of run, iterations is the number of history
\* records and at most max_iterations; with max_iterations = 0 nothing is
\* audited or written and the result is MAX_ITERATIONS_REACHED, no success,
\* 0 iterations, empty history; a result MAX_ITERATIONS_REACHED has
\* iterations = max_iterations.
C35_IterationsWithinCap ==
    pc = "done" =>
        /\ result.iterations = Len(result.history)
        /\ result.iterations <= max_iterations
        /\ max_iterations = 0 =>
              /\ result.status = "MAX_ITERATIONS_REACHED"
              /\ ~ result.success
              /\ result.iterations = 0
              /\ result.history = <<>>
              /\ reports = <<>>
              /\ \A p \in Paths : ~ fs.bak[p].exists
        /\ result.status = "MAX_ITERATIONS_REACHED" =>
              result.iterations = max_iterations

\* The number of passes a cap allows.
Allowed == IF max_iterations > 0 THEN max_iterations ELSE 0

\* C35: in the result of run, iterations is the number of history records
\* and at most max_iterations, or 0 when max_iterations is negative; with
\* max_iterations = 0 or less nothing is audited or written and the result
\* is MAX_ITERATIONS_REACHED, no success, 0 iterations, empty history; a
\* result MAX_ITERATIONS_REACHED has iterations = max_iterations, or 0 when
\* max_iterations is negative.
C35_IterationsWithinAllowed ==
    pc = "done" =>
        /\ result.iterations = Len(result.history)
        /\ result.iterations <= Allowed
        /\ max_iterations <= 0 =>
              /\ result.status = "MAX_ITERATIONS_REACHED"
              /\ ~ result.success
              /\ result.iterations = 0
              /\ result.history = <<>>
              /\ reports = <<>>
              /\ phases = <<>>
              /\ \A p \in Paths : ~ fs.bak[p].exists
        /\ result.status = "MAX_ITERATIONS_REACHED" =>
              result.iterations = Allowed
        /\ result.status = "SUCCESS" => result.iterations >= 1

\* C35 witness: a pipeline that tracks files and was given max_iterations
\* = 0 has returned.
C35_Witness ==
    /\ pc = "done"
    /\ max_iterations = 0
    /\ files # <<>>
    /\ result.iterations = 0
    /\ result.status = "MAX_ITERATIONS_REACHED"

\* C36: the files_to_fix of the plan handed to the Fixer is settled by the
\* tracked files alone: whatever the audit reported and whatever the oracle
\* answered to the planning prompt, every reply that yields a plan yields
\* this list; it holds every tracked file exactly once, with empty issues
\* and suggestions, and every test_ file after all other files.
C36_FilesToFixFromTrackedFilesOnly ==
    pc = "fix" =>
        LET files_to_fix == global_plan.files_to_fix
        IN  /\ Len(files_to_fix) = Len(files)
            /\ \A i \in DOMAIN files :
                  \E j \in DOMAIN files_to_fix :
                     /\ files_to_fix[j].path = files[i]
                     /\ \A k \in DOMAIN files_to_fix :
                           files_to_fix[k].path = files[i] => k = j
            /\ \A j \in DOMAIN files_to_fix :
                  /\ files_to_fix[j].issues = <<>>
                  /\ files_to_fix[j].suggestions = <<>>
            /\ \A i, j \in DOMAIN files_to_fix :
                  (is_test(files_to_fix[i].path) /\ ~ is_test(files_to_fix[j].path))
                      => j < i
            /\ \A oracle \in PlannerOracles :
                  LET built == build_global_plan_from_memory(files, oracle)
                  IN  ~ built.raised => built.plan.files_to_fix = files_to_fix

\* C36 witness: a test file is tracked before the module it tests, the
\* audit of a later iteration found something, the oracle answered the
\* planning prompt with prose, and the plan lists the module first.
C36_Witness ==
    /\ pc = "fix"
    /\ iteration = 2
    /\ files = <<PathTestCalc, PathCalc>>
    /\ \E i \in DOMAIN reports : reports[i].status # "PASS"
    /\ global_plan.global_plan.summary = NO_SUMMARY
    /\ global_plan.files_to_fix[1].path = PathCalc
    /\ global_plan.files_to_fix[2].path = PathTestCalc

====
